---- MODULE Spec2Model ----
(***************************************************************************)
(* Model of the notebook CH3-01-Creating_EmbeddedChunks.py: the Reset      *)
(* cell, the table cells, the chunk data frame, the pandas UDF             *)
(* get_embedding with its batching loop, and the two evaluations of        *)
(* df_chunk_emd (display, then the append to pdf_documentation_text).      *)
(*                                                                         *)
(* Two specifications:                                                     *)
(*   Spec       the notebook run, cell after cell;                         *)
(*   SpecEmbed  one invocation of get_embedding on a Series of any length  *)
(*              up to MaxLen (the function taken on its own).              *)
(***************************************************************************)
EXTENDS Integers, Sequences, FiniteSets

VARIABLES
  pc,             \* the notebook cell about to run, or "done" / "failed"
  Reset,          \* the value of the Reset widget (a string)
  raw_tbl,        \* table pdf_raw_text: Absent or its rows
  doc_tbl,        \* table pdf_documentation_text: Absent or its rows
  dropped,        \* tables named by the DROP TABLE statements this run executed
  docs,           \* the files under raw_documents/, with the chunks the splitter yields
  prior,          \* whether an earlier run left its tables behind
  cuts,           \* Spark's split of the files into partitions (cut after file d)
  df_chunks,      \* df_chunks, one sequence of rows per partition
  abatch,         \* evaluation of df_chunk_emd: Arrow record batch it is at
  out_rows,       \* rows of df_chunk_emd produced by the evaluation under way
  pass_calls,     \* remote calls issued by the evaluation under way
  contents,       \* get_embedding: its argument
  batches,        \* get_embedding: the list batches
  bi,             \* get_embedding: index of the batch the for loop is at
  all_embeddings, \* get_embedding: the list all_embeddings
  epc,            \* get_embedding: "idle", "loop", "wait", "returned", "raised"
  inflight,       \* remote calls issued and not yet answered (batch indices)
  calls,          \* every remote call get_embedding issued: [batch, input]
  received        \* every response get_embedding received: [batch, asked, n]

vars == <<pc, Reset, raw_tbl, doc_tbl, dropped, docs, prior, cuts, df_chunks,
          abatch, out_rows, pass_calls, contents, batches, bi, all_embeddings,
          epc, inflight, calls, received>>

nbvars == <<pc, Reset, raw_tbl, doc_tbl, dropped, docs, prior, cuts, df_chunks,
            abatch, out_rows, pass_calls>>

udfvars == <<contents, batches, bi, all_embeddings, epc, inflight, calls, received>>

----------------------------------------------------------------------------
(* Bounds of the model *)

MaxLen == 301

MaxDocs == 2

MaxChunks == 11

NumTexts == 3

(* Program constants *)

max_batch_size == 150

maxRecordsPerBatch == 10

Absent == "absent"

WidgetChoices == {"True", "False"}

----------------------------------------------------------------------------
(* Helpers *)

Min(a, b) == IF a < b THEN a ELSE b

\* Python's bool() of a str: only the empty string is false.
PyBool(s) == s # ""

\* s.iloc[a:b] (0-based, end exclusive, clipped to the length).
ILoc(s, a, b) == SubSeq(s, a + 1, Min(b, Len(s)))

\* range(i, n, step) as the sequence of its values: i, i + step, ... below n.
RECURSIVE PyRange(_, _, _)
PyRange(i, n, step) ==
  IF i >= n THEN <<>> ELSE <<i>> \o PyRange(i + step, n, step)

----------------------------------------------------------------------------
(* get_embedding *)

\* The vector the embedding model computes for a text.
EmbeddingOf(t) == <<t, NumTexts - t>>

\* deploy_client.predict(endpoint, inputs={"input": batch}) when it answers:
\* response.data lists, by index, one entry per input; an endpoint that breaks
\* that contract answers with fewer entries.
Responses(batch) ==
  { [data |-> [j \in 1..n |-> [index |-> j - 1, embedding |-> EmbeddingOf(batch[j])]]] :
      n \in {Len(batch)} \cup (IF Len(batch) > 0 THEN {Len(batch) - 1} ELSE {}) }

ExtractEmbeddings_reversed(response) ==
  [j \in 1..Len(response.data) |->
     response.data[Len(response.data) + 1 - j].embedding]

\* [e['embedding'] for e in response.data]
ExtractEmbeddings(response) ==
  [j \in 1..Len(response.data) |-> response.data[j].embedding]

BatchStarts_dropLast(n) == PyRange(0, n - 1, max_batch_size)

\* range(0, len(contents), max_batch_size)
BatchStarts(n) == PyRange(0, n, max_batch_size)

MakeBatches_overlap(c) ==
  [k \in 1..Len(BatchStarts(Len(c))) |->
     ILoc(c, BatchStarts(Len(c))[k], BatchStarts(Len(c))[k] + max_batch_size + 1)]

\* [contents.iloc[i:i + max_batch_size] for i in range(0, len(contents), max_batch_size)]
MakeBatches(c) ==
  [k \in 1..Len(BatchStarts(Len(c))) |->
     ILoc(c, BatchStarts(Len(c))[k], BatchStarts(Len(c))[k] + max_batch_size)]

AfterIssue_async == "loop"

\* predict is a blocking call: the loop goes on only once it has answered.
AfterIssue == "wait"

OnException_swallowed == "loop"

\* get_embeddings has no try/except: an exception of predict leaves the loop
\* and get_embedding.
OnException == "raised"

\* Entry of get_embedding with the Series c: the batches are built, the
\* accumulator is empty and the for loop is at its first batch.
Enter(c) ==
  /\ contents' = c
  /\ batches' = MakeBatches(c)
  /\ bi' = 1
  /\ all_embeddings' = <<>>
  /\ epc' = "loop"
  /\ inflight' = {}

\* for batch in batches: get_embeddings(batch.tolist()) sends the request.
Issue ==
  /\ epc = "loop"
  /\ bi <= Len(batches)
  /\ inflight' = inflight \cup {bi}
  /\ calls' = Append(calls, [batch |-> bi, input |-> batches[bi]])
  /\ pass_calls' = pass_calls + 1
  /\ epc' = AfterIssue
  /\ UNCHANGED <<contents, batches, bi, all_embeddings, received>>
  /\ UNCHANGED <<pc, Reset, raw_tbl, doc_tbl, dropped, docs, prior, cuts,
                 df_chunks, abatch, out_rows>>

\* The response arrives: all_embeddings += [e['embedding'] for e in response.data]
Answer ==
  /\ epc = "wait"
  /\ \E response \in Responses(batches[bi]) :
       /\ all_embeddings' = all_embeddings \o ExtractEmbeddings(response)
       /\ received' = Append(received, [batch |-> bi, asked |-> Len(batches[bi]),
                                        n |-> Len(response.data)])
  /\ inflight' = inflight \ {bi}
  /\ bi' = bi + 1
  /\ epc' = "loop"
  /\ UNCHANGED <<contents, batches, calls>>
  /\ UNCHANGED nbvars

\* predict raises: nothing catches it, the exception leaves get_embedding.
Raise ==
  /\ epc = "wait"
  /\ inflight' = inflight \ {bi}
  /\ epc' = OnException
  /\ UNCHANGED <<contents, batches, bi, all_embeddings, calls, received>>
  /\ UNCHANGED nbvars

\* return pd.Series(all_embeddings)
Return ==
  /\ epc = "loop"
  /\ bi > Len(batches)
  /\ epc' = "returned"
  /\ UNCHANGED <<contents, batches, bi, all_embeddings, inflight, calls, received>>
  /\ UNCHANGED nbvars

\* Every response received so far held one vector per submitted text.
WellFormed == \A k \in 1..Len(received) : received[k].n = received[k].asked

\* A Series of n texts.
TextSeries(n, s) == [i \in 1..n |-> (i + s) % NumTexts]

InitEmbed ==
  /\ pc = "udf"
  /\ Reset = "True"
  /\ raw_tbl = Absent
  /\ doc_tbl = Absent
  /\ dropped = {}
  /\ docs = <<>>
  /\ prior = FALSE
  /\ cuts = {}
  /\ df_chunks = <<>>
  /\ abatch = 1
  /\ out_rows = <<>>
  /\ pass_calls = 0
  /\ \E n \in 0..MaxLen, s \in 0..(NumTexts - 1) :
       /\ contents = TextSeries(n, s)
       /\ batches = MakeBatches(contents)
  /\ bi = 1
  /\ all_embeddings = <<>>
  /\ epc = "loop"
  /\ inflight = {}
  /\ calls = <<>>
  /\ received = <<>>

NextEmbed == Issue \/ Answer \/ Raise \/ Return

SpecEmbed == InitEmbed /\ [][NextEmbed]_vars

----------------------------------------------------------------------------
(* The notebook *)

\* The rows an earlier run left in pdf_raw_text and pdf_documentation_text.
OldRawRows == <<0>>

OldDocRows == <<[pdf_name |-> 0, content |-> 0, embedding |-> EmbeddingOf(0)]>>

\* read_as_chunk on one file: the texts of the nodes the sentence splitter
\* yields for it (the splitter is a library; its result is an input here).
ReadAsChunk(doc) == doc.chunks

\* explode(read_as_chunk("content")) and selectExpr('path as pdf_name', 'content')
RowsOf(doc) ==
  [k \in 1..Len(ReadAsChunk(doc)) |->
     [pdf_name |-> doc.path, content |-> ReadAsChunk(doc)[k]]]

\* df_chunks by partition: the files up to a cut share a partition.
RECURSIVE ChunkRows(_, _, _, _)
ChunkRows(ds, cs, d, cur) ==
  IF d > Len(ds) THEN <<>>
  ELSE IF d \in cs \/ d = Len(ds)
       THEN <<cur \o RowsOf(ds[d])>> \o ChunkRows(ds, cs, d + 1, <<>>)
       ELSE ChunkRows(ds, cs, d + 1, cur \o RowsOf(ds[d]))

ArrowBatches_whole(rows) == IF rows = <<>> THEN <<>> ELSE <<rows>>

\* spark.sql.execution.arrow.maxRecordsPerBatch = 10: a pandas UDF receives the
\* rows of a partition in record batches of at most that many rows.
ArrowBatches(rows) ==
  [k \in 1..Len(PyRange(0, Len(rows), maxRecordsPerBatch)) |->
     ILoc(rows, PyRange(0, Len(rows), maxRecordsPerBatch)[k],
          PyRange(0, Len(rows), maxRecordsPerBatch)[k] + maxRecordsPerBatch)]

RECURSIVE AllArrowBatches(_)
AllArrowBatches(parts) ==
  IF parts = <<>> THEN <<>>
  ELSE ArrowBatches(Head(parts)) \o AllArrowBatches(Tail(parts))

\* The column "content" of a record batch, as the Series handed to the UDF.
ContentOf(rows) == [k \in 1..Len(rows) |-> rows[k].content]

\* withColumn("embedding", get_embedding("content")): the k-th value of the
\* returned Series becomes the embedding of the k-th row of the record batch.
WithEmbedding(rows, embs) ==
  [k \in 1..Len(rows) |->
     [pdf_name |-> rows[k].pdf_name, content |-> rows[k].content,
      embedding |-> embs[k]]]

\* The numbers of chunks a file may yield: none or a few, and the numbers around
\* the size of a record batch.
ChunkCounts == (0..2) \cup ((maxRecordsPerBatch - 1)..MaxChunks)

Init ==
  /\ pc = "reset"
  /\ Reset \in WidgetChoices
  /\ prior \in BOOLEAN
  /\ raw_tbl = IF prior THEN OldRawRows ELSE Absent
  /\ doc_tbl = IF prior THEN OldDocRows ELSE Absent
  /\ dropped = {}
  /\ \E nd \in 1..MaxDocs :
       /\ \E counts \in [1..nd -> ChunkCounts] :
            docs = [d \in 1..nd |->
                      [path |-> d,
                       chunks |-> [k \in 1..counts[d] |-> (k + d) % NumTexts]]]
       /\ cuts \in SUBSET (1..(nd - 1))
  /\ df_chunks = <<>>
  /\ abatch = 1
  /\ out_rows = <<>>
  /\ pass_calls = 0
  /\ contents = <<>>
  /\ batches = <<>>
  /\ bi = 1
  /\ all_embeddings = <<>>
  /\ epc = "idle"
  /\ inflight = {}
  /\ calls = <<>>
  /\ received = <<>>

\* if bool(dbutils.widgets.get('Reset')): DROP TABLE IF EXISTS, twice
ResetCell ==
  /\ pc = "reset"
  /\ IF PyBool(Reset)
       THEN /\ raw_tbl' = Absent
            /\ doc_tbl' = Absent
            /\ dropped' = {"pdf_raw_text", "pdf_documentation_text"}
       ELSE UNCHANGED <<raw_tbl, doc_tbl, dropped>>
  /\ pc' = "create"
  /\ UNCHANGED <<Reset, docs, prior, cuts, df_chunks, abatch, out_rows, pass_calls>>
  /\ UNCHANGED udfvars

\* CREATE TABLE IF NOT EXISTS pdf_documentation_text
CreateCell ==
  /\ pc = "create"
  /\ doc_tbl' = IF doc_tbl = Absent THEN <<>> ELSE doc_tbl
  /\ pc' = "raw"
  /\ UNCHANGED <<Reset, raw_tbl, dropped, docs, prior, cuts, df_chunks, abatch,
                 out_rows, pass_calls>>
  /\ UNCHANGED udfvars

\* df = spark.read...load(documents_folder); df.write.mode("overwrite").saveAsTable
RawCell ==
  /\ pc = "raw"
  /\ raw_tbl' = [d \in 1..Len(docs) |-> docs[d].path]
  /\ pc' = "chunks"
  /\ UNCHANGED <<Reset, doc_tbl, dropped, docs, prior, cuts, df_chunks, abatch,
                 out_rows, pass_calls>>
  /\ UNCHANGED udfvars

\* df_chunks = df.withColumn("content", explode(read_as_chunk("content")))...
ChunkCell ==
  /\ pc = "chunks"
  /\ df_chunks' = ChunkRows(docs, cuts, 1, <<>>)
  /\ pc' = "probe"
  /\ UNCHANGED <<Reset, raw_tbl, doc_tbl, dropped, docs, prior, cuts, abatch,
                 out_rows, pass_calls>>
  /\ UNCHANGED udfvars

\* embeddings = deploy_client.predict(..., inputs={"input": ["What is ChatGPT?"]})
\* answers, or raises and ends the run.
ProbeCell ==
  /\ pc = "probe"
  /\ pc' \in {"display", "failed"}
  /\ UNCHANGED <<Reset, raw_tbl, doc_tbl, dropped, docs, prior, cuts, df_chunks,
                 abatch, out_rows, pass_calls>>
  /\ UNCHANGED udfvars

\* An evaluation of df_chunk_emd is under way: display(df_chunk_emd), which
\* with at most a thousand rows computes them all, or the write.
Evaluating == pc \in {"display", "write"}

\* Spark hands the next record batch to get_embedding.
Invoke ==
  /\ Evaluating
  /\ epc = "idle"
  /\ abatch <= Len(AllArrowBatches(df_chunks))
  /\ Enter(ContentOf(AllArrowBatches(df_chunks)[abatch]))
  /\ UNCHANGED <<calls, received>>
  /\ UNCHANGED nbvars

\* get_embedding returned its Series: Spark refuses a result whose length is
\* not that of its input, and otherwise attaches it to the rows by position.
Collect ==
  /\ Evaluating
  /\ epc = "returned"
  /\ epc' = "idle"
  /\ IF Len(all_embeddings) = Len(contents)
       THEN /\ out_rows' = out_rows \o
                   WithEmbedding(AllArrowBatches(df_chunks)[abatch], all_embeddings)
            /\ abatch' = abatch + 1
            /\ pc' = pc
       ELSE /\ pc' = "failed"
            /\ UNCHANGED <<out_rows, abatch>>
  /\ UNCHANGED <<Reset, raw_tbl, doc_tbl, dropped, docs, prior, cuts, df_chunks,
                 pass_calls>>
  /\ UNCHANGED <<contents, batches, bi, all_embeddings, inflight, calls, received>>

\* The exception get_embedding raised ends the cell and the run.
Abort ==
  /\ Evaluating
  /\ epc = "raised"
  /\ pc' = "failed"
  /\ UNCHANGED <<Reset, raw_tbl, doc_tbl, dropped, docs, prior, cuts, df_chunks,
                 abatch, out_rows, pass_calls>>
  /\ UNCHANGED udfvars

\* display(df_chunk_emd) has shown its rows; the write cell evaluates
\* df_chunk_emd again from the start.
EndDisplay ==
  /\ pc = "display"
  /\ epc = "idle"
  /\ abatch > Len(AllArrowBatches(df_chunks))
  /\ pc' = "write"
  /\ abatch' = 1
  /\ out_rows' = <<>>
  /\ pass_calls' = 0
  /\ UNCHANGED <<Reset, raw_tbl, doc_tbl, dropped, docs, prior, cuts, df_chunks>>
  /\ UNCHANGED udfvars

\* df_chunk_emd.write.mode("append").saveAsTable(...pdf_documentation_text):
\* the rows are committed together once all of them are computed.
EndWrite ==
  /\ pc = "write"
  /\ epc = "idle"
  /\ abatch > Len(AllArrowBatches(df_chunks))
  /\ doc_tbl' = doc_tbl \o out_rows
  /\ pc' = "done"
  /\ UNCHANGED <<Reset, raw_tbl, dropped, docs, prior, cuts, df_chunks, abatch,
                 out_rows, pass_calls>>
  /\ UNCHANGED udfvars

Next ==
  \/ ResetCell
  \/ CreateCell
  \/ RawCell
  \/ ChunkCell
  \/ ProbeCell
  \/ Invoke
  \/ Issue
  \/ Answer
  \/ Raise
  \/ Return
  \/ Collect
  \/ Abort
  \/ EndDisplay
  \/ EndWrite

Spec == Init /\ [][Next]_vars

----------------------------------------------------------------------------
(* Claims *)

\* ceil(a / b) for b > 0.
Ceil(a, b) == (a + b - 1) \div b

\* The concatenation of a sequence of sequences.
RECURSIVE Concat(_)
Concat(ss) == IF ss = <<>> THEN <<>> ELSE Head(ss) \o Concat(Tail(ss))

\* The sum of ceil(Len(p) / n) over the sequences p of ps.
RECURSIVE SumCeil(_, _)
SumCeil(ps, n) ==
  IF ps = <<>> THEN 0 ELSE Ceil(Len(Head(ps)), n) + SumCeil(Tail(ps), n)

\* A remote call ended with an exception: it was issued, it is no longer
\* outstanding, and no response came for it.
CallFailed == inflight = {} /\ Len(calls) > Len(received)

\* The inputs of the remote calls, in the order the calls were issued.
Submitted == [j \in 1..Len(calls) |-> calls[j].input]

\* The number of chunks of the run, all files together.
TotalChunks == Len(Concat(df_chunks))

\* One record per chunk: the chunk's text, the path of the file it was
\* extracted from, and the vector of that text.
RecordsOf(doc) ==
  [k \in 1..Len(doc.chunks) |->
     [pdf_name |-> doc.path, content |-> doc.chunks[k],
      embedding |-> EmbeddingOf(doc.chunks[k])]]

ExpectedRecords == Concat([d \in 1..Len(docs) |-> RecordsOf(docs[d])])

\* C1: get_embedding on L chunks forms ceil(L/150) batches, has issued exactly
\* that many remote calls when it returns, never more on the way, and, if every
\* response held one vector per submitted text, returns L vectors.
C1_BatchCountCallsAndLength ==
  /\ Len(batches) = Ceil(Len(contents), max_batch_size)
  /\ Len(calls) <= Len(batches)
  /\ epc = "returned" =>
       /\ Len(calls) = Len(batches)
       /\ WellFormed => Len(all_embeddings) = Len(contents)

\* C1 witness: 151 chunks, returned after 2 calls of sizes 150 and 1.
C1_Witness ==
  /\ epc = "returned"
  /\ Len(contents) = max_batch_size + 1
  /\ Len(calls) = 2
  /\ Len(calls[1].input) = max_batch_size
  /\ Len(calls[2].input) = 1
  /\ WellFormed
  /\ Len(all_embeddings) = max_batch_size + 1

\* C2: the batches are a contiguous partition of the input: each holds 1 to
\* 150 chunks, each but the last exactly 150, their concatenation is the input,
\* and they are submitted in that order, so that the inputs of the calls of a
\* returned invocation concatenate to the input as well.
C2_ContiguousPartition ==
  /\ Concat(batches) = contents
  /\ \A k \in 1..Len(batches) :
       /\ Len(batches[k]) >= 1
       /\ Len(batches[k]) <= max_batch_size
       /\ k < Len(batches) => Len(batches[k]) = max_batch_size
  /\ \A j \in 1..Len(calls) : calls[j].input = batches[j]
  /\ epc = "returned" => Concat(Submitted) = contents

\* C2 witness: three batches were submitted, the last one smaller.
C2_Witness ==
  /\ epc = "returned"
  /\ Len(calls) = 3
  /\ Len(batches[3]) < max_batch_size
  /\ Len(contents) > 2 * max_batch_size

\* C3 as stated: the evaluation of df_chunk_emd that writes the table issues
\* ceil(L/150) remote calls over the L chunks of the run, each but the last
\* carrying 150 chunks.
C3_Original ==
  pc = "done" =>
    /\ pass_calls = Ceil(TotalChunks, max_batch_size)
    /\ \A j \in (Len(calls) - pass_calls + 1)..(Len(calls) - 1) :
         Len(calls[j].input) = max_batch_size

\* C3 amended: get_embedding receives the chunks in record batches of at most
\* 10 rows, so an invocation forms at most one batch, every remote call carries
\* 1 to 10 chunks, and a completed evaluation of df_chunk_emd over L chunks has
\* issued one call per record batch: the sum over the partitions of
\* ceil(rows/10), which is at least ceil(L/10).
C3_CallsPerRecordBatch ==
  /\ Len(batches) <= 1
  /\ \A j \in 1..Len(calls) :
       /\ Len(calls[j].input) >= 1
       /\ Len(calls[j].input) <= maxRecordsPerBatch
  /\ pc = "done" =>
       /\ pass_calls = SumCeil(df_chunks, maxRecordsPerBatch)
       /\ pass_calls >= Ceil(TotalChunks, maxRecordsPerBatch)

\* C3 witness: a finished run whose chunks, in two partitions, took more calls
\* than ceil(L/10), one of them carrying a full record batch of 10.
C3_Witness ==
  /\ pc = "done"
  /\ Len(df_chunks) = 2
  /\ TotalChunks > maxRecordsPerBatch
  /\ pass_calls > Ceil(TotalChunks, maxRecordsPerBatch)
  /\ \E j \in 1..Len(calls) : Len(calls[j].input) = maxRecordsPerBatch

\* C4: the records appended to pdf_documentation_text are, one per chunk, the
\* chunk's text with the path of its file and the vector of that text; and
\* when get_embedding returns after well-formed responses, its i-th vector is
\* the vector of its i-th input.
C4_RecordsPairChunkFileVector ==
  /\ pc = "done" =>
       \/ doc_tbl = ExpectedRecords
       \/ doc_tbl = OldDocRows \o ExpectedRecords
  /\ (epc = "returned" /\ WellFormed) =>
       /\ Len(all_embeddings) = Len(contents)
       /\ \A i \in 1..Len(contents) : all_embeddings[i] = EmbeddingOf(contents[i])

\* C4 witness: a finished run of two files with more than 10 records written,
\* two of them with the same text and different files.
C4_Witness ==
  /\ pc = "done"
  /\ Len(docs) = 2
  /\ Len(doc_tbl) > maxRecordsPerBatch
  /\ \E i, j \in 1..Len(doc_tbl) :
       /\ doc_tbl[i].content = doc_tbl[j].content
       /\ doc_tbl[i].pdf_name # doc_tbl[j].pdf_name

\* C5: once a remote call has failed, no further remote call is issued, the
\* table pdf_documentation_text is not written, the run goes to its failed end
\* and stays there; and the table then holds no record of this run.
C5_FailureEndsRun ==
  [][ /\ CallFailed =>
           /\ calls' = calls
           /\ doc_tbl' = doc_tbl
           /\ pc' = "failed"
      /\ CallFailed' =>
           /\ epc' = "raised"
           /\ Len(calls') = Len(received') + 1
           /\ doc_tbl' # Absent
           /\ \A k \in 1..Len(doc_tbl') : doc_tbl'[k].pdf_name = 0 ]_vars

\* C5 witness: the run failed in the write, on a call that followed successful
\* ones whose rows were computed and are not in the table.
C5_Witness ==
  /\ pc = "failed"
  /\ CallFailed
  /\ Len(calls) >= Len(AllArrowBatches(df_chunks)) + 2
  /\ Len(out_rows) >= maxRecordsPerBatch
  /\ doc_tbl = <<>>

\* C6: within an invocation at most one remote call is outstanding, calls are
\* issued in ascending batch order, and the call for batch i + 1 is issued
\* only after the responses for batches 1..i have been received.
C6_SequentialCalls ==
  /\ Cardinality(inflight) <= 1
  /\ \A j \in 1..Len(calls) : calls[j].batch = j
  /\ \A j \in 1..Len(received) : received[j].batch = j
  /\ Len(received) <= Len(calls)
  /\ Len(calls) <= Len(received) + 1
  /\ inflight # {} => inflight = {Len(calls)} /\ Len(received) = Len(calls) - 1

\* C6 witness: the third call is outstanding after two responses.
C6_Witness ==
  /\ epc = "wait"
  /\ inflight = {3}
  /\ Len(received) = 2

\* C10 as stated: the tables are dropped if and only if the widget's value is
\* 'True'; with 'False' the tables an earlier run left are still there.
C10_ResetControlsDrop ==
  pc # "reset" =>
    /\ (dropped = {"pdf_raw_text", "pdf_documentation_text"}) <=> (Reset = "True")
    /\ (Reset = "False" /\ prior /\ pc = "create") =>
         (raw_tbl = OldRawRows /\ doc_tbl = OldDocRows)

====
